---------------------------- MODULE Spec2Model ----------------------------
(***************************************************************************)
(* A model of src/currency-config.js: the CurrencyConfig object, the two   *)
(* web-storage scopes it reads and writes, the price elements of the       *)
(* document and the mutation observer that init() installs.                *)
(*                                                                         *)
(* Text is a sequence of one-character strings, so that the regular        *)
(* expressions of the source work on characters as they do in JavaScript.  *)
(* Amounts are integers: a base price is held in cents, a rate in          *)
(* hundredths, a converted amount in units of 1/10000.                     *)
(***************************************************************************)
EXTENDS Integers, Sequences, FiniteSets, TLC

None == "none"          \* null / undefined / absent attribute or storage item

---------------------------------------------------------------------------
(* Characters and numerals                                                 *)

Digits == <<"0", "1", "2", "3", "4", "5", "6", "7", "8", "9">>

IsDigit(c) == \E i \in 1..10 : Digits[i] = c

DigitVal(c) == (CHOOSE i \in 1..10 : Digits[i] = c) - 1

IsSpace(c) == c = " "

\* \w of the regular expressions: letters, digits and the underscore.
Letters ==
    {"A", "B", "D", "E", "F", "J", "L", "O", "P", "R", "S", "T", "U", "Y",
     "a", "c", "d", "e", "f", "h", "i", "l", "n", "o", "p", "r", "s", "t", "u"}

IsWordChar(c) == IsDigit(c) \/ c \in Letters \/ c = "_"

\* Case folding of the "i" flag, for the letters of "dollars" and "USD".
Lower(c) ==
    CASE c = "U" -> "u"
      [] c = "S" -> "s"
      [] c = "D" -> "d"
      [] c = "O" -> "o"
      [] c = "L" -> "l"
      [] c = "A" -> "a"
      [] c = "R" -> "r"
      [] OTHER -> c

RECURSIVE NatToStr(_)
NatToStr(n) ==
    IF n < 10 THEN <<Digits[n + 1]>>
    ELSE NatToStr(n \div 10) \o <<Digits[(n % 10) + 1]>>

RECURSIVE StrToNat(_)
StrToNat(s) ==
    IF s = <<>> THEN 0
    ELSE 10 * StrToNat(SubSeq(s, 1, Len(s) - 1)) + DigitVal(s[Len(s)])

\* Index of the last character of the maximal run of digits of s that starts
\* at index i (i - 1 when s[i] is no digit).
RECURSIVE DigitRunEnd(_, _)
DigitRunEnd(s, i) ==
    IF i <= Len(s) /\ IsDigit(s[i]) THEN DigitRunEnd(s, i + 1) ELSE i - 1

RECURSIVE SpaceRunEnd(_, _)
SpaceRunEnd(s, i) ==
    IF i <= Len(s) /\ IsSpace(s[i]) THEN SpaceRunEnd(s, i + 1) ELSE i - 1

\* s has the characters of w at index i, compared without case.
HasWordAt(s, i, w) ==
    /\ i + Len(w) - 1 <= Len(s)
    /\ \A k \in 1..Len(w) : Lower(s[i + k - 1]) = w[k]

---------------------------------------------------------------------------
(* The registry (lines 4-41).  The euro, pound and yen signs are written   *)
(* "<euro>", "<pound>" and "<yen>": each is one character, and none is a   *)
(* word character, a digit or a dollar sign.                               *)

currencies ==
    [ USD |-> [symbol |-> <<"$">>, rate |-> 100, position |-> "before",
               name |-> <<"U", "S", " ", "D", "o", "l", "l", "a", "r">>],
      EUR |-> [symbol |-> <<"<euro>">>, rate |-> 85, position |-> "before",
               name |-> <<"E", "u", "r", "o">>],
      GBP |-> [symbol |-> <<"<pound>">>, rate |-> 73, position |-> "before",
               name |-> <<"B", "r", "i", "t", "i", "s", "h", " ",
                          "P", "o", "u", "n", "d">>],
      ZAR |-> [symbol |-> <<"R">>, rate |-> 1450, position |-> "before",
               name |-> <<"S", "o", "u", "t", "h", " ", "A", "f", "r", "i",
                          "c", "a", "n", " ", "R", "a", "n", "d">>],
      JPY |-> [symbol |-> <<"<yen>">>, rate |-> 11000, position |-> "before",
               name |-> <<"J", "a", "p", "a", "n", "e", "s", "e", " ",
                          "Y", "e", "n">>] ]

RegistryCodes == DOMAIN currencies

\* A default code that the registry does not list.
defaultCurrency_Unlisted == "AUD"

defaultCurrency == "USD"

---------------------------------------------------------------------------
(* formatCurrency (lines 103-112)                                          *)

Abs(x) == IF x < 0 THEN -x ELSE x

\* Number.prototype.toFixed(2) of x / 10000: the nearest multiple of 0.01,
\* the larger one on a tie, computed on the absolute value, with the sign
\* of x in front.
ToFixed2(x) ==
    LET n == (Abs(x) + 50) \div 100
        whole == NatToStr(n \div 100)
        frac == <<Digits[((n \div 10) % 10) + 1], Digits[(n % 10) + 1]>>
    IN  (IF x < 0 THEN <<"-">> ELSE <<>>) \o whole \o <<".">> \o frac

\* \B at the position after the first i characters of s.
NonWordBoundary(s, i) ==
    LET left == i >= 1 /\ IsWordChar(s[i])
        right == i + 1 <= Len(s) /\ IsWordChar(s[i + 1])
    IN  left = right

\* GroupLookahead without (?!\d): three digits follow, whatever comes next.
GroupLookahead_NoEnd(s, i) == DigitRunEnd(s, i + 1) - i >= 3

\* (?=(\d{3})+(?!\d)) at the position after the first i characters of s:
\* the digits that follow come in a whole number of groups of three.
GroupLookahead(s, i) ==
    LET run == DigitRunEnd(s, i + 1) - i
    IN  run > 0 /\ run % 3 = 0

\* .replace(/\B(?=(\d{3})+(?!\d))/g, ","): a comma at every matching position.
RECURSIVE GroupFrom(_, _)
GroupFrom(s, i) ==
    IF i > Len(s) THEN <<>>
    ELSE (IF NonWordBoundary(s, i - 1) /\ GroupLookahead(s, i - 1)
            THEN <<",">> ELSE <<>>)
         \o <<s[i]>> \o GroupFrom(s, i + 1)

GroupThousands(s) == GroupFrom(s, 1)

formatCurrency(amount, currencyCode) ==
    LET currency == IF currencyCode \in RegistryCodes
                      THEN currencies[currencyCode]
                      ELSE currencies[defaultCurrency]
        formattedAmount == GroupThousands(ToFixed2(amount))
    IN  IF currency.position = "before"
          THEN currency.symbol \o formattedAmount
          ELSE formattedAmount \o currency.symbol

---------------------------------------------------------------------------
(* parseFloat, as updatePriceElement uses it on the data-price attribute   *)
(* (line 307).  The result is [nan, val]: val is the number in cents.  Of  *)
(* a fraction the first two digits are read; no numeral of the model has   *)
(* more, and none has an exponent.                                         *)

NaN == [nan |-> TRUE, val |-> 0]

parseFloat(s) ==
    LET start == SpaceRunEnd(s, 1) + 1
        signed == start <= Len(s) /\ s[start] \in {"-", "+"}
        first == IF signed THEN start + 1 ELSE start
        intEnd == DigitRunEnd(s, first)
        hasInt == intEnd >= first
        hasDot == intEnd + 1 <= Len(s) /\ s[intEnd + 1] = "."
        fracEnd == IF hasDot THEN DigitRunEnd(s, intEnd + 2) ELSE intEnd
        hasFrac == hasDot /\ fracEnd >= intEnd + 2
        whole == IF hasInt THEN StrToNat(SubSeq(s, first, intEnd)) ELSE 0
        d1 == IF hasFrac THEN DigitVal(s[intEnd + 2]) ELSE 0
        d2 == IF hasFrac /\ fracEnd >= intEnd + 3
                THEN DigitVal(s[intEnd + 3]) ELSE 0
        magnitude == 100 * whole + 10 * d1 + d2
    IN  IF ~hasInt /\ ~hasFrac THEN NaN
        ELSE [nan |-> FALSE,
              val |-> IF signed /\ s[start] = "-" THEN -magnitude
                      ELSE magnitude]

---------------------------------------------------------------------------
(* The two regular expressions of updatePriceElement and of                *)
(* extractPriceFromText (lines 315, 318, 328, 331).  A match is            *)
(* [ok, end, caps]: end is the index of its last character and caps its    *)
(* captures, a capture that took no part being the empty string, which is  *)
(* what a replacement puts for it.                                         *)

NoMatch == [ok |-> FALSE, end |-> 0, caps |-> <<>>]

\* (\.\d{2})? after the first e characters: the index of its last character.
FractionEnd(s, e) ==
    IF /\ e + 3 <= Len(s)
       /\ s[e + 1] = "."
       /\ IsDigit(s[e + 2])
       /\ IsDigit(s[e + 3])
    THEN e + 3 ELSE e

\* /\$(\d+(\.\d{2})?)/ anchored at index i: caps are the numeral and the
\* fraction (line 328).  Line 315 has only the fraction as a capture.
DollarMatchAt(s, i) ==
    IF i + 1 <= Len(s) /\ s[i] = "$" /\ IsDigit(s[i + 1])
    THEN LET e == DigitRunEnd(s, i + 1)
             f == FractionEnd(s, e)
         IN  [ok |-> TRUE, end |-> f,
              caps |-> <<SubSeq(s, i + 1, f), SubSeq(s, e + 1, f)>>]
    ELSE NoMatch

\* /(\d+(\.\d{2})?)\s*(dollars|USD)/i anchored at index i.  \d+ giving back
\* digits never helps: what follows a shorter run is a digit.
WordMatchAt(s, i) ==
    IF i <= Len(s) /\ IsDigit(s[i])
    THEN LET e == DigitRunEnd(s, i)
             f == FractionEnd(s, e)
             WordEnd(from) ==
                 LET w == SpaceRunEnd(s, from + 1) + 1
                 IN  IF HasWordAt(s, w, <<"d", "o", "l", "l", "a", "r", "s">>)
                       THEN w + 6
                     ELSE IF HasWordAt(s, w, <<"u", "s", "d">>) THEN w + 2
                     ELSE 0
             \* with the fraction first, then without it
             num == IF WordEnd(f) > 0 THEN f ELSE e
             last == WordEnd(num)
         IN  IF last > 0
               THEN [ok |-> TRUE, end |-> last,
                     caps |-> <<SubSeq(s, i, num), SubSeq(s, e + 1, num),
                                SubSeq(s, SpaceRunEnd(s, num + 1) + 1, last)>>]
               ELSE NoMatch
    ELSE NoMatch

\* GetSubstitution of String.prototype.replace: in the replacement text,
\* "$$" is a dollar sign, "$&" the match, "$n" and "$nn" the n-th capture
\* when the pattern has that many, a two-digit reference beyond the last
\* capture being read as a one-digit reference and a digit.  The
\* replacement texts of the source hold no other "$" sequence.
RECURSIVE GetSubstitution(_, _, _, _)
GetSubstitution(template, i, matched, caps) ==
    IF i > Len(template) THEN <<>>
    ELSE IF template[i] # "$" \/ i = Len(template)
      THEN <<template[i]>> \o GetSubstitution(template, i + 1, matched, caps)
    ELSE IF template[i + 1] = "$"
      THEN <<"$">> \o GetSubstitution(template, i + 2, matched, caps)
    ELSE IF template[i + 1] = "&"
      THEN matched \o GetSubstitution(template, i + 2, matched, caps)
    ELSE IF IsDigit(template[i + 1])
      THEN LET two == i + 2 <= Len(template) /\ IsDigit(template[i + 2])
               nn == IF two THEN 10 * DigitVal(template[i + 1])
                                  + DigitVal(template[i + 2])
                     ELSE 0
               digitCount == IF two /\ nn <= Len(caps) THEN 2 ELSE 1
               index == IF digitCount = 2 THEN nn
                        ELSE DigitVal(template[i + 1])
               refReplacement ==
                   IF 1 <= index /\ index <= Len(caps) THEN caps[index]
                   ELSE SubSeq(template, i, i + digitCount)
           IN  refReplacement
               \o GetSubstitution(template, i + 1 + digitCount, matched, caps)
    ELSE <<"$">> \o GetSubstitution(template, i + 1, matched, caps)

\* .replace(/\$\d+(\.\d{2})?/g, template) from index i on (lines 314-317).
RECURSIVE ReplaceDollar(_, _, _)
ReplaceDollar(s, i, template) ==
    IF i > Len(s) THEN <<>>
    ELSE LET m == DollarMatchAt(s, i)
         IN  IF m.ok
               THEN GetSubstitution(template, 1, SubSeq(s, i, m.end),
                                    <<m.caps[2]>>)
                    \o ReplaceDollar(s, m.end + 1, template)
               ELSE <<s[i]>> \o ReplaceDollar(s, i + 1, template)

\* .replace(/(\d+(\.\d{2})?)\s*(dollars|USD)/gi, template) from index i on
\* (lines 317-320).
RECURSIVE ReplaceWord(_, _, _)
ReplaceWord(s, i, template) ==
    IF i > Len(s) THEN <<>>
    ELSE LET m == WordMatchAt(s, i)
         IN  IF m.ok
               THEN GetSubstitution(template, 1, SubSeq(s, i, m.end), m.caps)
                    \o ReplaceWord(s, m.end + 1, template)
               ELSE <<s[i]>> \o ReplaceWord(s, i + 1, template)

\* The first index from i on at which a pattern matches, 0 if there is none.
RECURSIVE FirstDollarMatch(_, _)
FirstDollarMatch(s, i) ==
    IF i > Len(s) THEN 0
    ELSE IF DollarMatchAt(s, i).ok THEN i
    ELSE FirstDollarMatch(s, i + 1)

RECURSIVE FirstWordMatch(_, _)
FirstWordMatch(s, i) ==
    IF i > Len(s) THEN 0
    ELSE IF WordMatchAt(s, i).ok THEN i
    ELSE FirstWordMatch(s, i + 1)

\* extractPriceFromText (lines 327-335): the numeral, or None.
extractPriceFromText(text) ==
    LET p == FirstDollarMatch(text, 1)
        n == FirstWordMatch(text, 1)
    IN  IF p > 0 THEN DollarMatchAt(text, p).caps[1]
        ELSE IF n > 0 THEN WordMatchAt(text, n).caps[1]
        ELSE <<>>

---------------------------------------------------------------------------
(* The document.  The elements of the model are those of a small page: the *)
(* page as the server sends it holds elements 1 and 7; scripts insert the  *)
(* trees rooted at 2, 4 and 6 later.  Each entry gives the element as      *)
(* authored: its parent (0 for a child of body), whether it has one of the *)
(* classes price, amount or cost, its data-price attribute and its         *)
(* content.  In the content of a parent, a child element appears as its    *)
(* start tag and its end tag, each one token that no pattern matches: the  *)
(* attributes serialized in a start tag are data-price and data-currency   *)
(* only, which hold no dollar sign and no numeral before a currency word.  *)
(*                                                                         *)
(*   1  <span data-price="10">$10</span>                                   *)
(*   2  <div data-price="10">$10 [3]</div>                                 *)
(*   3  <span data-price="5">$5</span>             (child of 2)            *)
(*   4  <p>[5]</p>                                                         *)
(*   5  <span data-price="10">10 USD</span>        (child of 4)            *)
(*   6  <span class="price">$2000</span>                                   *)
(*   7  <span class="cost">Free</span>                                     *)

Elems == 1..7

NoAttrs == [a \in {} |-> <<>>]

PriceAttr(v) == [a \in {"data-price"} |-> v]

Authored ==
    << [parent |-> 0, priceClass |-> FALSE, open |-> "<1>", close |-> "</1>",
        attrs |-> PriceAttr(<<"1", "0">>),
        content |-> <<"$", "1", "0">>],
       [parent |-> 0, priceClass |-> FALSE, open |-> "<2>", close |-> "</2>",
        attrs |-> PriceAttr(<<"1", "0">>),
        content |-> <<"$", "1", "0", " ", "<3>", "$", "5", "</3>">>],
       [parent |-> 2, priceClass |-> FALSE, open |-> "<3>", close |-> "</3>",
        attrs |-> PriceAttr(<<"5">>),
        content |-> <<"$", "5">>],
       [parent |-> 0, priceClass |-> FALSE, open |-> "<4>", close |-> "</4>",
        attrs |-> NoAttrs,
        content |-> <<"<5>", "1", "0", " ", "U", "S", "D", "</5>">>],
       [parent |-> 4, priceClass |-> FALSE, open |-> "<5>", close |-> "</5>",
        attrs |-> PriceAttr(<<"1", "0">>),
        content |-> <<"1", "0", " ", "U", "S", "D">>],
       [parent |-> 0, priceClass |-> TRUE, open |-> "<6>", close |-> "</6>",
        attrs |-> NoAttrs,
        content |-> <<"$", "2", "0", "0", "0">>],
       [parent |-> 0, priceClass |-> TRUE, open |-> "<7>", close |-> "</7>",
        attrs |-> NoAttrs,
        content |-> <<"F", "r", "e", "e">>] >>

Roots == {e \in Elems : Authored[e].parent = 0}

ServerPage == {1, 7}

ScriptInserted == Roots \ ServerPage

RootOf(e) == IF Authored[e].parent = 0 THEN e ELSE Authored[e].parent

ChildrenOf(e) == {c \in Elems : Authored[c].parent = e}

\* The index of token t in s, 0 if s does not hold it.
RECURSIVE IndexOf(_, _, _)
IndexOf(s, t, i) ==
    IF i > Len(s) THEN 0
    ELSE IF s[i] = t THEN i
    ELSE IndexOf(s, t, i + 1)

\* element.innerHTML, given the content h of every child of body.
InnerHTMLIn(h, e) ==
    IF Authored[e].parent = 0 THEN h[e]
    ELSE LET outer == h[Authored[e].parent]
             o == IndexOf(outer, Authored[e].open, 1)
             c == IndexOf(outer, Authored[e].close, 1)
         IN  SubSeq(outer, o + 1, c - 1)

\* element.innerHTML = text, on the contents h.
SetInnerHTMLIn(h, e, text) ==
    IF Authored[e].parent = 0 THEN [h EXCEPT ![e] = text]
    ELSE LET p == Authored[e].parent
             outer == h[p]
             o == IndexOf(outer, Authored[e].open, 1)
             c == IndexOf(outer, Authored[e].close, 1)
         IN  [h EXCEPT ![p] = SubSeq(outer, 1, o) \o text
                                \o SubSeq(outer, c, Len(outer))]

\* ParsedNodes for a browser that reports the rewritten element itself as
\* the node added.
ParsedNodes_Self(e, text) == <<e>>

\* The child nodes that parsing text creates in element e, in order: a
\* child element by its number, a text node as 0.
ParsedNodes(e, text) ==
    LET cs == {c \in ChildrenOf(e) : IndexOf(text, Authored[c].open, 1) > 0}
    IN  IF text = <<>> THEN <<>>
        ELSE IF cs = {} THEN <<0>>
        ELSE LET c == CHOOSE x \in cs : TRUE
                 o == IndexOf(text, Authored[c].open, 1)
                 k == IndexOf(text, Authored[c].close, 1)
             IN  (IF o > 1 THEN <<0>> ELSE <<>>) \o <<c>>
                 \o (IF k < Len(text) THEN <<0>> ELSE <<>>)

\* A node reference n once the element it names has been replaced by a new
\* one: the old element, which is out of the document, is written -n.
Detach(gone, n) == IF n \in gone THEN -n ELSE n

DetachAll(gone, records) ==
    [i \in 1..Len(records) |->
        [j \in 1..Len(records[i]) |-> Detach(gone, records[i][j])]]

---------------------------------------------------------------------------
(* State                                                                   *)

VARIABLES
    localStore,     \* localStorage["userCurrencyPreference"], or None
    sessionStore,   \* sessionStorage["userCurrencyPreference"], or None
    authSources,    \* which of the three signs of a login are present
    popupShown,     \* localStorage["currencyPopupShown"] is set
    popup,          \* the popup: "none", "timer" (setTimeout pending), "shown"
    phase,          \* "loading" until DOMContentLoaded has run init, "ready"
    observing,      \* the MutationObserver is installed on document.body
    inDoc,          \* the children of body that are in the document
    html,           \* innerHTML of each child of body
    attrs,          \* the attributes of each element, by name
    pending,        \* mutation records not yet delivered: their addedNodes
    dispatched,     \* details of the currencyChanged events sent to window
    uncaught        \* a handler of this page has ended in an exception

vars == <<localStore, sessionStore, authSources, popupShown, popup, phase,
          observing, inDoc, html, attrs, pending, dispatched, uncaught>>

stores == <<localStore, sessionStore, authSources, popupShown>>

page == <<inDoc, html, attrs, pending, uncaught>>

\* The currency codes that scripts, users and other pages pass in or leave
\* in the stores: two of the registry and one the registry does not have.
PrefInputs == {"USD", "GBP", "XXX"}

\* The signs of a login that checkIfUserIsLoggedIn looks for, and the one by
\* which the user of the model logs in.
AuthSources == {"authToken", "userLoggedIn", "user_session"}

LoginSigns == {"authToken"}

\* How many currencyChanged events the model follows on one page.
MaxEvents == 1

\* How many trees scripts insert into one page.
MaxInserted == 1

\* How many mutation records a script leaves undelivered before it ends and
\* the observer's callback runs.
MaxPending == 2

\* The length of content up to which scripts go on calling the functions
\* of CurrencyConfig themselves.
MaxHtmlLen == 24

---------------------------------------------------------------------------
(* The preference and the conversion (lines 44-100, 114-120)               *)

checkIfUserIsLoggedIn ==
    \/ "authToken" \in authSources
    \/ "userLoggedIn" \in authSources
    \/ "user_session" \in authSources

\* Resolve with the session store read before the persisted one.
Resolve_SessionFirst(stored, session, isLoggedIn) ==
    IF session # None THEN session
    ELSE IF stored # None THEN stored
    ELSE defaultCurrency

\* Resolve without the default on line 56.
Resolve_NoDefault(stored, session, isLoggedIn) ==
    IF stored = None /\ isLoggedIn
      THEN session
      ELSE (IF stored # None THEN stored ELSE defaultCurrency)

\* Lines 46-59, on what the two stores hold and whether the user is logged in.
Resolve(stored, session, isLoggedIn) ==
    IF stored = None /\ isLoggedIn
      THEN (IF session # None THEN session ELSE defaultCurrency)
      ELSE (IF stored # None THEN stored ELSE defaultCurrency)

getUserCurrency == Resolve(localStore, sessionStore, checkIfUserIsLoggedIn)

\* convertAmount(amountInBase), amountInBase in cents.  Reading .rate of an
\* undefined registry entry is a TypeError: threw.
convertAmount(amountInBase) ==
    LET userCurrency == getUserCurrency
    IN  IF userCurrency \notin RegistryCodes
          THEN [threw |-> TRUE, amount |-> 0, formatted |-> <<>>,
                symbol |-> <<>>, code |-> userCurrency]
          ELSE LET currencyData == currencies[userCurrency]
                   convertedAmount == amountInBase * currencyData.rate
               IN  [threw |-> FALSE,
                    amount |-> convertedAmount,
                    formatted |-> formatCurrency(convertedAmount, userCurrency),
                    symbol |-> currencyData.symbol,
                    code |-> userCurrency]

---------------------------------------------------------------------------
(* updatePriceElement (lines 306-324) on a document d = [html, attrs,      *)
(* queue, observed, gone, threw], the document as a running handler sees   *)
(* it: queue is the mutation records not yet delivered, observed says that *)
(* the observer is installed, gone is the elements that the handler has    *)
(* replaced by new ones so far, and threw says that an exception is on its *)
(* way to the caller.                                                      *)

HasAttr(a, e, name) == name \in DOMAIN a[e]

\* getAttribute, the empty text standing for null: both are falsy, and
\* parseFloat makes NaN of both.
GetAttr(a, e, name) == IF HasAttr(a, e, name) THEN a[e][name] ELSE <<>>

SetAttr(a, e, name, value) ==
    [a EXCEPT ![e] = [n \in DOMAIN a[e] \cup {name} |->
                         IF n = name THEN value ELSE a[e][n]]]

\* Lines 313-320: the markup the substitution starts from, and its result.
OriginalHTML(d, e) ==
    IF GetAttr(d.attrs, e, "data-original-html") # <<>>
      THEN GetAttr(d.attrs, e, "data-original-html")
      ELSE InnerHTMLIn(d.html, e)

UpdatedHTML(originalHTML, converted) ==
    ReplaceWord(
        ReplaceDollar(originalHTML, 1, converted.formatted),
        1,
        converted.formatted \o <<" ">> \o currencies[converted.code].name)

\* n is 0 for a text node, e for element e of the document and -e for an
\* element that was e and has been replaced: writing to it changes nothing
\* in the document and makes no mutation record.
updatePriceElement(d, n) ==
    LET e == Abs(n)
        basePrice == parseFloat(GetAttr(d.attrs, e, "data-price"))
        converted == convertAmount(basePrice.val)
        updatedHTML == UpdatedHTML(OriginalHTML(d, e), converted)
        gone == ChildrenOf(e)
        record == ParsedNodes(e, updatedHTML)
    IN  IF basePrice.nan THEN d
        ELSE IF converted.threw THEN [d EXCEPT !.threw = TRUE]
        ELSE IF n < 0 THEN d
        ELSE [html |-> SetInnerHTMLIn(d.html, e, updatedHTML),
              attrs |-> SetAttr(d.attrs, e, "data-currency", converted.code),
              queue |-> IF d.observed
                          THEN Append(DetachAll(gone, d.queue), record)
                          ELSE d.queue,
              observed |-> d.observed,
              gone |-> d.gone \cup gone,
              threw |-> FALSE]

\* The elements of S in document order.
InOrder(S) == SelectSeq([i \in Elems |-> i], LAMBDA x : x \in S)

RECURSIVE Flatten(_)
Flatten(records) ==
    IF records = <<>> THEN <<>> ELSE Head(records) \o Flatten(Tail(records))

\* forEach(element => this.updatePriceElement(element)) over a list of
\* nodes that was made before the loop began: an exception ends the loop,
\* and an element replaced since the list was made is out of the document.
RECURSIVE UpdateEach(_, _)
UpdateEach(d, nodes) ==
    IF nodes = <<>> \/ d.threw THEN d
    ELSE UpdateEach(updatePriceElement(d, Detach(d.gone, Head(nodes))),
                    Tail(nodes))

InDocument(doc, e) == RootOf(e) \in doc

\* querySelectorAll('[data-price]') under root (the document: 0).
PriceTagged(d, doc, root) ==
    InOrder({e \in Elems : /\ InDocument(doc, e)
                           /\ HasAttr(d.attrs, e, "data-price")
                           /\ root \in {0, Authored[e].parent}})

\* ScanClassEach without the test of line 296: an element is given the
\* attributes whatever extractPriceFromText returns.
RECURSIVE ScanClassEach_NoTest(_, _)
ScanClassEach_NoTest(d, nodes) ==
    IF nodes = <<>> \/ d.threw THEN d
    ELSE LET element == Head(nodes)
             textContent == InnerHTMLIn(d.html, element)
             price == extractPriceFromText(textContent)
             tagged == [d EXCEPT !.attrs =
                           SetAttr(SetAttr(d.attrs, element, "data-price", price),
                                   element, "data-original-text", textContent)]
         IN  ScanClassEach_NoTest(
                 IF ~HasAttr(d.attrs, element, "data-price")
                   THEN updatePriceElement(tagged, element)
                   ELSE d,
                 Tail(nodes))

\* Lines 292-302, for the elements of the list from the first one on.
\* textContent is innerHTML: the elements with a price class hold text only.
RECURSIVE ScanClassEach(_, _)
ScanClassEach(d, nodes) ==
    IF nodes = <<>> \/ d.threw THEN d
    ELSE LET element == Head(nodes)
             textContent == InnerHTMLIn(d.html, element)
             price == extractPriceFromText(textContent)
             tagged == [d EXCEPT !.attrs =
                           SetAttr(SetAttr(d.attrs, element, "data-price", price),
                                   element, "data-original-text", textContent)]
         IN  ScanClassEach(
                 IF ~HasAttr(d.attrs, element, "data-price") /\ price # <<>>
                   THEN updatePriceElement(tagged, element)
                   ELSE d,
                 Tail(nodes))

\* processPageElements (lines 285-303).
processPageElements(d, doc) ==
    LET first == UpdateEach(d, PriceTagged(d, doc, 0))
    IN  ScanClassEach(first,
                      InOrder({e \in doc : Authored[e].priceClass}))

\* The elements on which the observer's callback calls updatePriceElement
\* for added node n (lines 342-350).
WatcherTargets(d, n) ==
    IF n = 0 THEN <<>>
    ELSE IF HasAttr(d.attrs, Abs(n), "data-price") THEN <<n>>
    ELSE IF n > 0 THEN PriceTagged(d, {RootOf(n)}, n)
    ELSE <<>>

\* The observer's callback (lines 339-353) on the added nodes of the
\* records delivered to it.
RECURSIVE ObserverEach(_, _)
ObserverEach(d, nodes) ==
    IF nodes = <<>> \/ d.threw THEN d
    ELSE LET node == Detach(d.gone, Head(nodes))
         IN  ObserverEach(UpdateEach(d, WatcherTargets(d, node)),
                          Tail(nodes))

\* The document of the state, as a handler finds it.
Doc == [html |-> html, attrs |-> attrs, queue |-> pending,
        observed |-> observing, gone |-> {}, threw |-> FALSE]

---------------------------------------------------------------------------
(* Initial state: the page as the server sent it, before DOMContentLoaded, *)
(* with whatever earlier visits left in the two stores.                    *)

AuthoredHtml == [r \in Roots |-> Authored[r].content]

AuthoredAttrs == [e \in Elems |-> Authored[e].attrs]

Init ==
    /\ localStore \in {None} \cup (PrefInputs \cap RegistryCodes)
    /\ sessionStore \in {None} \cup PrefInputs
    /\ authSources = {}
    /\ popupShown = FALSE
    /\ popup = "none"
    /\ phase = "loading"
    /\ observing = FALSE
    /\ inDoc = ServerPage
    /\ html = AuthoredHtml
    /\ attrs = AuthoredAttrs
    /\ pending = <<>>
    /\ dispatched = <<>>
    /\ uncaught = FALSE

\* What a handler leaves of the document d.
Leave(d) ==
    /\ html' = d.html
    /\ attrs' = d.attrs
    /\ pending' = d.queue
    /\ uncaught' = (uncaught \/ d.threw)

---------------------------------------------------------------------------
(* Handlers                                                                *)

\* Lines 363-365 and init (145-154): checkAndShowPopup (157-169), then
\* processPageElements, then setupMutationObserver, which an exception of
\* the scan keeps from running.
DOMContentLoaded ==
    /\ phase = "loading"
    /\ LET d == processPageElements(Doc, inDoc)
       IN  /\ Leave(d)
           /\ observing' = ~d.threw
    /\ popup' = IF ~popupShown /\ localStore = None /\ checkIfUserIsLoggedIn
                  THEN "timer" ELSE popup
    /\ phase' = "ready"
    /\ UNCHANGED <<stores, inDoc, dispatched>>

\* The timeout of lines 164-167: showCurrencyPopup appends the popup, an
\* element without data-price and without price elements in it, to body.
PopupTimerFires ==
    /\ popup = "timer"
    /\ pending = <<>>
    /\ popup' = "shown"
    /\ popupShown' = TRUE
    /\ pending' = IF observing THEN <<<<0>>>> ELSE <<>>
    /\ UNCHANGED <<localStore, sessionStore, authSources, phase, observing,
                   inDoc, html, attrs, dispatched, uncaught>>

\* StoredAfterSet with line 69 in an else branch of line 72: a logged-in
\* user's choice goes to the session store only.
StoredAfterSet_SessionOnly(currencyCode) ==
    [local |-> IF checkIfUserIsLoggedIn THEN localStore ELSE currencyCode,
     session |-> IF checkIfUserIsLoggedIn THEN currencyCode ELSE sessionStore]

\* setUserCurrency (lines 63-86) of a code of the registry: the stores
\* after it.
StoredAfterSet(currencyCode) ==
    [local |-> currencyCode,
     session |-> IF checkIfUserIsLoggedIn THEN currencyCode ELSE sessionStore]

\* What setUserCurrency returns (lines 64-67, 85): false for a code that
\* the registry does not have.
setUserCurrencyReturns(currencyCode) == currencyCode \in RegistryCodes

\* CallSetUserCurrency with the dispatch of lines 81-83 before the test of
\* line 64: a rejected code is announced too.
CallSetUserCurrency_DispatchFirst(currencyCode) ==
    /\ phase = "ready"
    /\ Len(dispatched) < MaxEvents
    /\ dispatched' = Append(dispatched, currencyCode)
    /\ IF currencyCode \notin RegistryCodes
         THEN UNCHANGED <<localStore, sessionStore>>
         ELSE /\ localStore' = StoredAfterSet(currencyCode).local
              /\ sessionStore' = StoredAfterSet(currencyCode).session
    /\ UNCHANGED <<authSources, popupShown, popup, phase, observing, page>>

\* CallSetUserCurrency without the test of line 64: any code is stored.
CallSetUserCurrency_NoTest(currencyCode) ==
    /\ phase = "ready"
    /\ Len(dispatched) < MaxEvents
    /\ localStore' = StoredAfterSet(currencyCode).local
    /\ sessionStore' = StoredAfterSet(currencyCode).session
    /\ dispatched' = Append(dispatched, currencyCode)
    /\ UNCHANGED <<authSources, popupShown, popup, phase, observing, page>>

\* setUserCurrency called by a script of the page.
CallSetUserCurrency(currencyCode) ==
    /\ phase = "ready"
    /\ IF ~setUserCurrencyReturns(currencyCode)
         THEN UNCHANGED <<localStore, sessionStore, dispatched>>
         ELSE /\ Len(dispatched) < MaxEvents
              /\ localStore' = StoredAfterSet(currencyCode).local
              /\ sessionStore' = StoredAfterSet(currencyCode).session
              /\ dispatched' = Append(dispatched, currencyCode)
    /\ UNCHANGED <<authSources, popupShown, popup, phase, observing, page>>

\* The click handler of a button of the popup (lines 196-201):
\* setUserCurrency, hideCurrencyPopup, location.reload().  The reload
\* brings the server's page back, before its DOMContentLoaded.
ClickCurrencyOption(currencyCode) ==
    /\ popup = "shown"
    /\ pending = <<>>
    /\ currencyCode \in RegistryCodes
    /\ localStore' = StoredAfterSet(currencyCode).local
    /\ sessionStore' = StoredAfterSet(currencyCode).session
    /\ popup' = "none"
    /\ phase' = "loading"
    /\ observing' = FALSE
    /\ inDoc' = ServerPage
    /\ html' = AuthoredHtml
    /\ attrs' = AuthoredAttrs
    /\ pending' = <<>>
    /\ dispatched' = <<>>
    /\ uncaught' = FALSE
    /\ UNCHANGED <<authSources, popupShown>>

\* A script of the page goes on calling: the content of the page is short
\* enough, and not too many mutation records wait for the script to end.
Short ==
    /\ \A r \in inDoc : Len(html[r]) <= MaxHtmlLen
    /\ Len(pending) < MaxPending

\* updatePriceElement called by a script of the page on an element of the
\* document.
CallUpdatePriceElement(element) ==
    /\ phase = "ready"
    /\ InDocument(inDoc, element)
    /\ Short
    /\ Leave(updatePriceElement(Doc, element))
    /\ UNCHANGED <<stores, popup, phase, observing, inDoc, dispatched>>

\* processPageElements called by a script of the page.
CallProcessPageElements ==
    /\ phase = "ready"
    /\ Short
    /\ Leave(processPageElements(Doc, inDoc))
    /\ UNCHANGED <<stores, popup, phase, observing, inDoc, dispatched>>

\* A script appends the tree rooted at root to body, as authored.
InsertNode(root) ==
    /\ phase = "ready"
    /\ root \in ScriptInserted \ inDoc
    /\ Cardinality(inDoc \ ServerPage) < MaxInserted
    /\ Len(pending) < MaxPending
    /\ inDoc' = inDoc \cup {root}
    /\ pending' = IF observing THEN Append(pending, <<root>>) ELSE pending
    /\ UNCHANGED <<stores, popup, phase, observing, html, attrs, dispatched,
                   uncaught>>

\* The observer's callback (lines 339-353), with all the records written
\* since the last delivery.
ObserverCallback ==
    /\ pending # <<>>
    /\ Leave(ObserverEach([Doc EXCEPT !.queue = <<>>], Flatten(pending)))
    /\ UNCHANGED <<stores, popup, phase, observing, inDoc, dispatched>>

\* The user logs in, which leaves a sign that checkIfUserIsLoggedIn looks
\* for, or out.
EnvLogin(source) ==
    /\ authSources = {}
    /\ authSources' = {source}
    /\ UNCHANGED <<localStore, sessionStore, popupShown, popup, phase,
                   observing, page, dispatched>>

EnvLogout ==
    /\ authSources # {}
    /\ authSources' = {}
    /\ UNCHANGED <<localStore, sessionStore, popupShown, popup, phase,
                   observing, page, dispatched>>

Next ==
    \/ DOMContentLoaded
    \/ PopupTimerFires
    \/ \E c \in PrefInputs : CallSetUserCurrency(c)
    \/ \E c \in PrefInputs : ClickCurrencyOption(c)
    \/ \E e \in Elems : CallUpdatePriceElement(e)
    \/ CallProcessPageElements
    \/ \E r \in Roots : InsertNode(r)
    \/ ObserverCallback
    \/ \E a \in LoginSigns : EnvLogin(a)
    \/ EnvLogout

Spec == Init /\ [][Next]_vars

\* A first visit: both stores are empty, and only the code writes them.
EmptyStoresInit ==
    /\ Init
    /\ localStore = None
    /\ sessionStore = None

EmptyStoresSpec == EmptyStoresInit /\ [][Next]_vars

\* The browser runs a queued observer callback, fires DOMContentLoaded on a
\* loading page and fires a pending timeout.  Scripts and users are free
\* not to act.
FairSpec ==
    /\ Spec
    /\ WF_vars(ObserverCallback)
    /\ WF_vars(DOMContentLoaded)
    /\ WF_vars(PopupTimerFires)

---------------------------------------------------------------------------
(* Pages of one price element and two elements with a price class, the     *)
(* attribute and the texts drawn from the inputs below: the functions of   *)
(* CurrencyConfig applied to more inputs than the page above gives them.   *)
(* The preference is the default or the euro, whose rate makes no amount   *)
(* of these pages fall halfway between two cents.                          *)

PriceInputs ==
    { <<"0">>, <<"1", "0">>, <<"-", "5">>, <<"1", "2", "3", "4", ".", "5">>,
      <<"1", "2", "3", "4", "5", "6">>, <<"1", "0", "a", "b", "c">>,
      <<"a", "b", "c">> }

ContentInputs ==
    { <<"$", "1", "0">>, <<"$", "1", "0", " ", "U", "S", "D">> }

\* The texts of elements 6 and 7.
TextInputs ==
    { << <<"F", "r", "e", "e">>, <<"5", " ", "d", "o", "l", "l", "a", "r", "s">> >>,
      << <<"5", " ", "U", "S", "D", " ", "$", "1", "0">>, <<"F", "r", "e", "e">> >> }

InputPrefs == {None, "EUR"}

InputInit ==
    /\ localStore \in InputPrefs
    /\ sessionStore = None
    /\ authSources = {}
    /\ popupShown = FALSE
    /\ popup = "none"
    /\ phase = "loading"
    /\ observing = FALSE
    /\ inDoc = {1, 6, 7}
    /\ \E price \in PriceInputs, content \in ContentInputs, texts \in TextInputs :
          /\ html = [AuthoredHtml EXCEPT ![1] = content, ![6] = texts[1],
                                         ![7] = texts[2]]
          /\ attrs = [AuthoredAttrs EXCEPT ![1] = PriceAttr(price)]
    /\ pending = <<>>
    /\ dispatched = <<>>
    /\ uncaught = FALSE

InputNext ==
    \/ DOMContentLoaded
    \/ \E e \in Elems : CallUpdatePriceElement(e)
    \/ CallProcessPageElements
    \/ ObserverCallback

InputSpec == InputInit /\ [][InputNext]_vars

---------------------------------------------------------------------------
(* What the claims speak of                                                *)

InnerHTML(e) == InnerHTMLIn(html, e)

Present == {e \in Elems : InDocument(inDoc, e)}

\* The element carries a data-price attribute that parseFloat reads.
Parseable(e) ==
    /\ HasAttr(attrs, e, "data-price")
    /\ ~parseFloat(GetAttr(attrs, e, "data-price")).nan

\* The element has been synchronized: it carries the tag of line 323.
Tagged(e) == HasAttr(attrs, e, "data-currency")

\* The markup of the element as authored with its prices replaced by the
\* base amount converted to currency code.
Fresh(e, code) ==
    LET cents == parseFloat(IF HasAttr(AuthoredAttrs, e, "data-price")
                              THEN AuthoredAttrs[e]["data-price"]
                              ELSE extractPriceFromText(Authored[e].content)).val
        amount == cents * currencies[code].rate
    IN  UpdatedHTML(Authored[e].content,
                    [formatted |-> formatCurrency(amount, code), code |-> code])

\* The content of element e after updatePriceElement(e) is called in
\* document d.
After(d, e) == InnerHTMLIn(updatePriceElement(d, e).html, e)

---------------------------------------------------------------------------
(* C1.  Idempotence of updatePriceElement: in every state, for every       *)
(* element of the document with a readable base amount, calling            *)
(* updatePriceElement twice in a row, the preference unchanged, leaves the *)
(* content that the first call left.                                       *)
C1_SynchronizeIdempotent ==
    \A e \in Present :
        LET once == updatePriceElement(Doc, e)
        IN  (Parseable(e) /\ getUserCurrency \in RegistryCodes)
              => After(once, e) = InnerHTMLIn(once.html, e)

(* C2.  No drift on a change of preference: an element synchronized under  *)
(* one currency and synchronized again once the preference is another      *)
(* currency B shows what a first synchronization of the authored element   *)
(* under B shows.                                                          *)
C2_NoDriftOnPreferenceChange ==
    \A e \in Present :
        ( /\ Tagged(e)
          /\ Parseable(e)
          /\ getUserCurrency \in RegistryCodes
          /\ GetAttr(attrs, e, "data-currency") # getUserCurrency )
        => After(Doc, e) = Fresh(e, getUserCurrency)

\* The base amount of the element as its first synchronization finds it:
\* the authored attribute, or the numeral extracted from the authored text.
BaselinePrice(e) ==
    IF HasAttr(AuthoredAttrs, e, "data-price")
      THEN AuthoredAttrs[e]["data-price"]
      ELSE extractPriceFromText(Authored[e].content)

(* C3.  Immutable baseline: once an element has been synchronized, its     *)
(* stored base amount and its stored original text are those of the        *)
(* authored element, and the markup that its next synchronization starts   *)
(* from is the authored markup, not converted content.                     *)
C3_BaselineImmutable ==
    \A e \in Present :
        Tagged(e) =>
            /\ GetAttr(attrs, e, "data-price") = BaselinePrice(e)
            /\ HasAttr(attrs, e, "data-original-text")
                 => attrs[e]["data-original-text"] = Authored[e].content
            /\ OriginalHTML(Doc, e) = Authored[e].content

\* Base amounts, in cents, for the claims about convertAmount.
SampleAmounts == {0, 500, 1000, 10000, 200000}

(* C4.  Fallback for an unknown currency: when the code that the           *)
(* preference resolves to is not in the registry, convertAmount does not   *)
(* throw and returns the conversion and the formatting of the default      *)
(* currency.                                                               *)
C4_UnknownCurrencyFallsBack ==
    getUserCurrency \notin RegistryCodes =>
        \A a \in SampleAmounts :
            /\ ~convertAmount(a).threw
            /\ convertAmount(a).amount = a * currencies[defaultCurrency].rate
            /\ convertAmount(a).formatted =
                   formatCurrency(a * currencies[defaultCurrency].rate,
                                  defaultCurrency)

Subtree(n) == {n} \cup ChildrenOf(n)

SeqRange(q) == {q[i] : i \in 1..Len(q)}

\* The tree rooted at n was inserted by a script, on a page whose init has
\* installed the observer, and is still as it was inserted.
InsertedUnderWatch(n) ==
    /\ observing
    /\ n \in inDoc \cap ScriptInserted
    /\ html[n] = Authored[n].content
    /\ \A e \in Subtree(n) : attrs[e] = AuthoredAttrs[e]

\* Element e has been synchronized: it is tagged with a currency of the
\* registry and shows its own base amount converted to that currency.
SynchronizedIn(h, a, e) ==
    /\ HasAttr(a, e, "data-currency")
    /\ a[e]["data-currency"] \in RegistryCodes
    /\ InnerHTMLIn(h, e) = Fresh(e, a[e]["data-currency"])

Synchronized(e) == SynchronizedIn(html, attrs, e)

(* C5.  The watcher picks up insertions: when the observer's callback has *)
(* run on a batch that names a tree inserted by a script after init, every *)
(* element of the tree with a readable data-price is synchronized: it is   *)
(* tagged with the preference and shows its base amount converted.         *)
C5_WatcherSynchronizesInserted ==
    [][ ObserverCallback =>
          \A n \in SeqRange(Flatten(pending)) :
              (n > 0 /\ InsertedUnderWatch(n)) =>
                  \A e \in Subtree(n) :
                      Parseable(e) => SynchronizedIn(html', attrs', e) ]_vars

\* The text nodes that are children of element e, in one text.
OwnText(e) ==
    LET text == InnerHTML(e)
        inChild(i) ==
            \E c \in ChildrenOf(e) :
                /\ IndexOf(text, Authored[c].open, 1) <= i
                /\ i <= IndexOf(text, Authored[c].close, 1)
    IN  SelectSeq([i \in 1..Len(text) |-> IF inChild(i) THEN "" ELSE text[i]],
                  LAMBDA ch : ch # "")

\* The price-bearing elements of section 6 of the specification: those with
\* an explicit base amount and those whose text the extractor matches.
PriceBearing(e) ==
    \/ HasAttr(attrs, e, "data-price")
    \/ extractPriceFromText(OwnText(e)) # <<>>

(* C6.  The watcher misses no price element: for every element among the   *)
(* added nodes of a pending mutation record, the callback calls            *)
(* updatePriceElement on the element if it is price-bearing and on every   *)
(* price-bearing descendant of it.                                         *)
C6_WatcherMissesNone ==
    \A n \in SeqRange(Flatten(pending)) :
        n > 0 =>
            {e \in Subtree(n) : PriceBearing(e)}
                \subseteq SeqRange(WatcherTargets(Doc, n))

\* A step in which setUserCurrency(c) succeeds.
SetSucceeds(c) ==
    /\ c \in RegistryCodes
    /\ CallSetUserCurrency(c) \/ ClickCurrencyOption(c)

(* C7.  An explicit set wins: right after setUserCurrency(c) succeeds,      *)
(* getUserCurrency returns c, and once a code has been set, no step but a  *)
(* successful set changes what getUserCurrency returns, whatever the       *)
(* session store holds and whether the user is logged in or not.           *)
C7_ExplicitSetWins ==
    [][ /\ \A c \in PrefInputs : SetSucceeds(c) => getUserCurrency' = c
        /\ ( /\ localStore # None
             /\ ~\E c \in PrefInputs : SetSucceeds(c) )
           => getUserCurrency' = getUserCurrency ]_vars

\* A set has succeeded on this page, the session store holds another code
\* than the one set, the user is logged in, and the code set is returned.
C7_Witness ==
    /\ dispatched # <<>>
    /\ sessionStore \notin {None, dispatched[Len(dispatched)]}
    /\ checkIfUserIsLoggedIn
    /\ getUserCurrency = dispatched[Len(dispatched)]

(* C8, as claimed.  The session store is layered over the persisted one:   *)
(* the resolver returns the session store's code when both stores hold     *)
(* one, the persisted code only when the session store is empty, and the   *)
(* default only when both are empty.                                       *)
C8_SessionOverPersisted ==
    /\ (sessionStore # None /\ localStore # None)
         => getUserCurrency = sessionStore
    /\ (sessionStore = None /\ localStore # None)
         => getUserCurrency = localStore
    /\ (sessionStore = None /\ localStore = None)
         => getUserCurrency = defaultCurrency

(* C8, amended.  The persisted store is layered over the session store:    *)
(* the resolver returns the persisted code whenever there is one; the      *)
(* session store's code only when the persisted store is empty and the     *)
(* user is logged in; the default when the persisted store is empty and    *)
(* the user is logged out or the session store is empty too.               *)
C8_PersistedOverSession ==
    /\ localStore # None => getUserCurrency = localStore
    /\ (localStore = None /\ checkIfUserIsLoggedIn /\ sessionStore # None)
         => getUserCurrency = sessionStore
    /\ (localStore = None /\ (~checkIfUserIsLoggedIn \/ sessionStore = None))
         => getUserCurrency = defaultCurrency

\* Both stores hold a code, the two differ, the user is logged in and the
\* persisted one is returned.
C8_Witness ==
    /\ localStore # None
    /\ sessionStore \notin {None, localStore}
    /\ checkIfUserIsLoggedIn
    /\ getUserCurrency = localStore

(* C9.  The resolver never fails: whatever the two stores hold and whether *)
(* the user is logged in or not, getUserCurrency returns a currency code,  *)
(* and it returns the default code when no store it consults holds one.    *)
C9_ResolverNeverFails ==
    /\ getUserCurrency # None
    /\ getUserCurrency \in PrefInputs \cup RegistryCodes
    /\ (localStore = None /\ (checkIfUserIsLoggedIn => sessionStore = None))
         => getUserCurrency = defaultCurrency

\* The user is logged in, both stores are empty, and the default is returned.
C9_Witness ==
    /\ localStore = None
    /\ sessionStore = None
    /\ checkIfUserIsLoggedIn
    /\ getUserCurrency = defaultCurrency

\* Every element of the document with a readable base amount is tagged with
\* currency code c and shows its base amount converted to c.
AllShow(c) ==
    \A e \in Present :
        Parseable(e) =>
            /\ Tagged(e)
            /\ attrs[e]["data-currency"] = c
            /\ InnerHTML(e) = Fresh(e, c)

\* The browser has nothing left to run by itself: the page is loaded, no
\* mutation record waits for the observer and no timeout is pending.
Quiescent ==
    /\ phase = "ready"
    /\ pending = <<>>
    /\ popup # "timer"

(* C10.  A change of preference brings a full re-scan: after a successful  *)
(* setUserCurrency(c) on a page, once the browser has nothing left to run, *)
(* every price element of the document is tagged with c and shows its base *)
(* amount converted to c.                                                  *)
C10_SetTriggersRescan ==
    \A c \in RegistryCodes :
        (dispatched # <<>> /\ dispatched[Len(dispatched)] = c /\ Quiescent)
            => AllShow(c)

---------------------------------------------------------------------------
\* s is a decimal numeral that is not negative: digits, then possibly a
\* point and digits, and nothing else.
ValidDecimal(s) ==
    LET e == DigitRunEnd(s, 1)
    IN  /\ e >= 1
        /\ \/ e = Len(s)
           \/ /\ e + 2 <= Len(s)
              /\ s[e + 1] = "."
              /\ DigitRunEnd(s, e + 2) = Len(s)

BadAttribute(e) ==
    /\ HasAttr(attrs, e, "data-price")
    /\ ~ValidDecimal(attrs[e]["data-price"])

(* C11.  A bad attribute means skip: no handler changes the content or the *)
(* attributes of an element whose data-price is not a decimal numeral that *)
(* is not negative (no digits, a minus sign, characters after the number), *)
(* and none ends in an exception.                                          *)
C11_BadAttributeSkipped ==
    [][ /\ \A e \in Present :
              BadAttribute(e) =>
                  /\ InnerHTMLIn(html', e) = InnerHTML(e)
                  /\ attrs'[e] = attrs[e]
        /\ ~uncaught' ]_vars

\* A candidate of the scan's second loop that is no price element: it has a
\* price class, no data-price, and a text that neither pattern matches.
NonPriceCandidate(e) ==
    /\ Authored[e].priceClass
    /\ ~HasAttr(attrs, e, "data-price")
    /\ extractPriceFromText(InnerHTML(e)) = <<>>

ScanAttributes == {"data-price", "data-original-text", "data-currency"}

(* C12.  Non-price elements are untouched: a page scan leaves the content  *)
(* of every candidate that is no price element as it is and creates none   *)
(* of data-price, data-original-text and data-currency on it, and it       *)
(* leaves every other element as the scan of the page without the          *)
(* candidate leaves it.                                                    *)
C12_NonPriceUntouched ==
    [][ (DOMContentLoaded \/ CallProcessPageElements) =>
          \A e \in Present :
              NonPriceCandidate(e) =>
                  LET without == processPageElements(Doc, inDoc \ {e})
                  IN  /\ InnerHTMLIn(html', e) = InnerHTML(e)
                      /\ DOMAIN attrs'[e] \cap ScanAttributes = {}
                      /\ \A o \in Present \ {e} :
                             /\ InnerHTMLIn(html', o) = InnerHTMLIn(without.html, o)
                             /\ attrs'[o] = without.attrs[o] ]_vars

\* A scan has run on a page whose element 6 is no price element: element 6
\* is as it was, and element 7, which comes after it, is synchronized.
C12_Witness ==
    /\ phase = "ready"
    /\ NonPriceCandidate(6)
    /\ InnerHTML(6) = <<"F", "r", "e", "e">>
    /\ attrs[6] = NoAttrs
    /\ HasAttr(attrs, 7, "data-currency")
    /\ attrs[7]["data-original-text"]
           = <<"5", " ", "d", "o", "l", "l", "a", "r", "s">>

(* C13.  The tag is the currency applied: a call of updatePriceElement on  *)
(* an element with a readable data-price leaves data-currency equal to the *)
(* code that getUserCurrency resolves in that call, which is a code of the *)
(* registry.                                                               *)
C13_TagIsAppliedCurrency ==
    [][ \A e \in Present :
            (CallUpdatePriceElement(e) /\ Parseable(e)) =>
                /\ getUserCurrency \in RegistryCodes
                /\ HasAttr(attrs', e, "data-currency")
                /\ attrs'[e]["data-currency"] = getUserCurrency ]_vars

(* C14.  The registry: every currency has a rate above 0, the default code *)
(* is a key of the registry and of one entry only, and the rate of the     *)
(* default currency, the base, is 1.0 (100 hundredths).  The registry is   *)
(* the same in every state: no function of the source assigns to it.      *)
C14_RegistryInvariant ==
    /\ \A c \in RegistryCodes : currencies[c].rate > 0
    /\ defaultCurrency \in RegistryCodes
    /\ Cardinality({c \in RegistryCodes : c = defaultCurrency}) = 1
    /\ currencies[defaultCurrency].rate = 100
    /\ \A e \in Present :
           Tagged(e) => attrs[e]["data-currency"] \in RegistryCodes

\* A set, a scan and a synchronization under the code set have all run.
C14_Witness ==
    /\ phase = "ready"
    /\ dispatched # <<>>
    /\ \E e \in Present :
           /\ Tagged(e)
           /\ attrs[e]["data-currency"] = dispatched[Len(dispatched)]
           /\ attrs[e]["data-currency"] # defaultCurrency

ThreeDigits(n) ==
    <<Digits[(n \div 100) + 1], Digits[((n \div 10) % 10) + 1],
      Digits[(n % 10) + 1]>>

RECURSIVE Grouped(_)
Grouped(n) ==
    IF n < 1000 THEN NatToStr(n)
    ELSE Grouped(n \div 1000) \o <<",">> \o ThreeDigits(n % 1000)

ExpectedNumber(cents) ==
    (IF cents < 0 THEN <<"-">> ELSE <<>>)
    \o Grouped(Abs(cents) \div 100)
    \o <<".", Digits[((Abs(cents) \div 10) % 10) + 1],
              Digits[(Abs(cents) % 10) + 1]>>

ExpectedFormat(cents, code) ==
    IF currencies[code].position = "before"
      THEN currencies[code].symbol \o ExpectedNumber(cents)
      ELSE ExpectedNumber(cents) \o currencies[code].symbol

(* C15.  Formatting: for the amount of whole cents that the data-price of  *)
(* any element of the page states (zero, negative, up to six digits before *)
(* the point) and every currency of the registry, formatCurrency gives the *)
(* sign, the whole part with a comma between groups of three digits, a     *)
(* point and two decimals, the symbol in front when position is "before"   *)
(* and behind otherwise; and 1234.5 in USD is "$1,234.50".                 *)
C15_FormatsAmount ==
    /\ \A e \in Present :
           Parseable(e) =>
               LET cents == parseFloat(GetAttr(attrs, e, "data-price")).val
               IN  \A code \in RegistryCodes :
                       formatCurrency(cents * 100, code)
                           = ExpectedFormat(cents, code)
    /\ formatCurrency(12345000, "USD")
           = <<"$", "1", ",", "2", "3", "4", ".", "5", "0">>

\* The amount 123456 has been converted to euros, formatted and written.
C15_Witness ==
    /\ GetAttr(attrs, 1, "data-price") = <<"1", "2", "3", "4", "5", "6">>
    /\ Tagged(1)
    /\ attrs[1]["data-currency"] = "EUR"
    /\ InnerHTML(1) = <<"<euro>", "1", "0", "4", ",", "9", "3", "7", ".",
                        "6", "0">>

\* The numeral of the occurrence of either pattern that starts leftmost in
\* text; the empty text if there is no occurrence.
LeftmostNumeral(text) ==
    LET p == FirstDollarMatch(text, 1)
        n == FirstWordMatch(text, 1)
    IN  IF p = 0 /\ n = 0 THEN <<>>
        ELSE IF p = 0 \/ (n > 0 /\ n < p) THEN WordMatchAt(text, n).caps[1]
        ELSE DollarMatchAt(text, p).caps[1]

(* C17.  Extraction from left to right: once the page has been scanned,    *)
(* the base amount that the scan has extracted from the text of an element *)
(* with a price class is the numeral of the occurrence that starts         *)
(* leftmost in that text, of whichever pattern, and an element that the    *)
(* scan has left without a base amount holds no occurrence.                *)
C17_LeftmostExtraction ==
    \A e \in Present :
        (phase = "ready" /\ Authored[e].priceClass) =>
            IF HasAttr(attrs, e, "data-original-text")
              THEN attrs[e]["data-price"]
                       = LeftmostNumeral(attrs[e]["data-original-text"])
              ELSE LeftmostNumeral(InnerHTML(e)) = <<>>

\* One pass over the markup s from index i on, in which every occurrence
\* of a pattern in s is replaced once and nothing that a replacement has
\* produced is looked at again.
RECURSIVE SinglePass(_, _, _, _)
SinglePass(s, i, dollarTemplate, wordTemplate) ==
    IF i > Len(s) THEN <<>>
    ELSE LET m == DollarMatchAt(s, i)
             w == WordMatchAt(s, i)
         IN  IF m.ok
               THEN GetSubstitution(dollarTemplate, 1, SubSeq(s, i, m.end),
                                    <<m.caps[2]>>)
                    \o SinglePass(s, m.end + 1, dollarTemplate, wordTemplate)
             ELSE IF w.ok
               THEN GetSubstitution(wordTemplate, 1, SubSeq(s, i, w.end), w.caps)
                    \o SinglePass(s, w.end + 1, dollarTemplate, wordTemplate)
             ELSE <<s[i]>> \o SinglePass(s, i + 1, dollarTemplate, wordTemplate)

(* C18.  Every price occurrence is substituted once in a pass: a step that *)
(* changes the content of an element with a readable data-price leaves    *)
(* the content in which each occurrence of a pattern in the markup before  *)
(* the step has been replaced once, and no text that the replacement of    *)
(* the symbol pattern has produced has been replaced again by that of the  *)
(* currency-word pattern.                                                  *)
C18_SubstitutedOnce ==
    [][ \A e \in Present :
            ( /\ Parseable(e)
              /\ getUserCurrency \in RegistryCodes
              /\ InnerHTMLIn(html', e) # InnerHTML(e) ) =>
                LET converted ==
                        convertAmount(
                            parseFloat(GetAttr(attrs, e, "data-price")).val)
                IN  InnerHTMLIn(html', e) =
                        SinglePass(InnerHTML(e), 1, converted.formatted,
                                   converted.formatted \o <<" ">>
                                       \o currencies[converted.code].name) ]_vars

Max(S) == CHOOSE x \in S : \A y \in S : y <= x

\* The height of the tree of elements under node n: 0 for a text node and
\* for an element that is out of the document.
RECURSIVE Height(_)
Height(n) ==
    IF n <= 0 THEN 0
    ELSE 1 + Max({0} \cup {Height(c) : c \in ChildrenOf(n)})

\* How many callbacks the records waiting can still bring about: none wait,
\* or one more than the height of the highest node added.
Rank(records) ==
    IF records = <<>> THEN 0
    ELSE 1 + Max({0} \cup {Height(n) : n \in SeqRange(Flatten(records))})

(* C19.  The feedback between watcher and synchronizer ends: every run of  *)
(* the observer's callback leaves mutation records of a lower rank than    *)
(* those it was given, the rank being 0 when none waits and otherwise one  *)
(* more than the height of the highest element added; so an insertion or a *)
(* scan is followed by at most that many callbacks, after which no record  *)
(* waits.                                                                  *)
C19_FeedbackTerminates ==
    [][ ObserverCallback => Rank(pending') < Rank(pending) ]_vars

\* The chain is under way: the tree of element 2 has been inserted and
\* synchronized, and the record of that rewrite, which names the element 3
\* that it created, waits for the observer.
C19_Witness ==
    /\ observing
    /\ 2 \in inDoc
    /\ Tagged(2)
    /\ ~Tagged(3)
    /\ pending = << <<0, 3>> >>

====
